---- MODULE Spec2Model ----
(***************************************************************************)
(* The activity-timeline API of server/api/views.py as a state machine.    *)
(*                                                                         *)
(* State: the two tables the views read (ActivityEvent, Person), the       *)
(* request being answered and the response returned for it.  One action    *)
(* per view of urls.py; a view runs from parameter extraction to its       *)
(* return statement in one step.  The views only read the tables.          *)
(*                                                                         *)
(* Conventions.  A Python dict is a function whose DOMAIN is its key set;  *)
(* dict.get is Get.  Python's None is the string "None", which is in no    *)
(* domain of identifiers or parameter values.  Names are sequences of      *)
(* one-character strings so that str.strip() can be computed.  A timestamp *)
(* is an integer number of ticks; DayLen ticks make one calendar date.     *)
(* Fields that a view copies through unread (activity, channel, status,    *)
(* involved_team_ids) are left out of the rows.                            *)
(***************************************************************************)
EXTENDS Integers, Sequences, FiniteSets, TLC

VARIABLES
    events,     \* table ActivityEvent: a sequence of rows, events[i].id = i
    persons,    \* table Person: a set of rows, at most one per id
    request,    \* [view, GET] of the request answered last
    response,   \* [status, body] returned for it
    history,    \* one earlier exchange kept by an observer: its request, its
                \* response and the requests that were left to serve after it
    remaining   \* requests the behaviour still serves (a bound of the model)

vars == <<events, persons, request, response, history, remaining>>

(***************************************************************************)
(* Bounds of the model.                                                    *)
(***************************************************************************)
MaxEvents == 2      \* rows of ActivityEvent
MaxTime == 3        \* timestamps are 1..MaxTime
MaxPeople == 2      \* length of an event's embedded people list
MaxPage == 2        \* largest page number / page size a request names
MaxRequests == 3    \* requests served one after another (SpecFrame)
DayLen == 2         \* ticks per calendar date (TruncDate's granularity)

(***************************************************************************)
(* Constants of the program.                                               *)
(***************************************************************************)
DefaultPageSize == 50       \* page_size when the request names none
RandomEventLimit == 10      \* rows random_activity_events returns at most
RandomPersonLimit == 5      \* rows random_persons returns at most

None == "None"
NoRequest == [view |-> "none", GET |-> <<>>]
NoResponse == [status |-> 0, body |-> <<>>]
NoHistory == [request |-> NoRequest, response |-> NoResponse, left |-> 0]

(***************************************************************************)
(* Python primitives.                                                      *)
(***************************************************************************)
\* dict.get(key, default)
Get(d, k, default) == IF k \in DOMAIN d THEN d[k] ELSE default

\* truth value of an optional string: None and "" are falsy
Truthy(v) == v # None /\ v # ""

\* a or b
Or(a, b) == IF Truthy(a) THEN a ELSE b

\* int(s): IsInt(s) says that s denotes an integer (int() raises ValueError
\* when it does not), ParseInt(s) is that integer
IntRange == (0 - MaxPage - 1)..(MaxPage + MaxEvents + 2)
IsInt(s) == \E n \in IntRange : ToString(n) = s
ParseInt(s) == CHOOSE n \in IntRange : ToString(n) = s

\* isoformat() of a timestamp, and of a date
IsoFormat(t) == "T" \o ToString(t)
DateIso(d) == "D" \o ToString(d)

\* s.replace('Z', '+00:00')
ReplaceZ(s) ==
    IF \E t \in 1..MaxTime : s = IsoFormat(t) \o "Z"
    THEN IsoFormat(CHOOSE t \in 1..MaxTime : s = IsoFormat(t) \o "Z") \o "+00:00"
    ELSE s

\* datetime.fromisoformat(s): accepts the ISO form with or without an offset
IsIso(s) == \E t \in 1..MaxTime : s \in {IsoFormat(t), IsoFormat(t) \o "+00:00"}
FromIsoFormat(s) ==
    CHOOSE t \in 1..MaxTime : s \in {IsoFormat(t), IsoFormat(t) \o "+00:00"}

\* str.strip() on a sequence of characters
RECURSIVE LStrip(_)
LStrip(s) == IF s # <<>> /\ Head(s) = " " THEN LStrip(Tail(s)) ELSE s
RECURSIVE RStrip(_)
RStrip(s) ==
    IF s # <<>> /\ s[Len(s)] = " " THEN RStrip(SubSeq(s, 1, Len(s) - 1)) ELSE s
Strip(s) == RStrip(LStrip(s))

\* f"{a} {b}"
Spaced(a, b) == a \o <<" ">> \o b

Unknown == <<"U", "n", "k", "n", "o", "w", "n">>

Min(a, b) == IF a < b THEN a ELSE b
Max(a, b) == IF a > b THEN a ELSE b

\* math.ceil(a / b) for a >= 0, b > 0
CeilDiv(a, b) == (a + b - 1) \div b

\* all the orders in which the elements of S can be listed
Perms(S) ==
    {s \in [1..Cardinality(S) -> S] : \A i, j \in DOMAIN s : i # j => s[i] # s[j]}

Range(s) == {s[i] : i \in DOMAIN s}

(***************************************************************************)
(* The ORM operations the views call.                                      *)
(***************************************************************************)
\* ActivityEvent.objects
Objects == Range(events)

\* (mutant of FilterScope: the account is not filtered on)
FilterOrgOnly(qs, customer_org_id, account_id) ==
    {e \in qs : e.customer_org_id = customer_org_id}

\* .filter(customer_org_id=..., account_id=...)
FilterScope(qs, customer_org_id, account_id) ==
    {e \in qs : e.customer_org_id = customer_org_id /\ e.account_id = account_id}

\* (mutant of FilterGte: the filter is applied to the whole table instead of
\* the scoped queryset)
FilterGteOfAll(qs, dt) == {e \in Objects : e.timestamp >= dt}

\* .filter(timestamp__gte=dt), .filter(timestamp__lte=dt)
FilterGte(qs, dt) == {e \in qs : e.timestamp >= dt}
FilterLte(qs, dt) == {e \in qs : e.timestamp <= dt}

\* (mutant of OrderByTimestamp: no order_by, the rows come in any order)
Unordered(qs) == Perms(qs)

\* .order_by("timestamp"): the database lists rows of equal timestamp in any
\* order, so evaluating the queryset yields one of these lists
OrderByTimestamp(qs) ==
    {s \in Perms(qs) : \A i, j \in DOMAIN s : i < j => s[i].timestamp <= s[j].timestamp}

\* Person.objects.get(id=person_id): the rows that match (id is the key, so
\* at most one); the empty set is Person.DoesNotExist
PersonGet(person_id) == {p \in persons : p.id = person_id}

\* Paginator.num_pages, with allow_empty_first_page and no orphans
NumPages(count, per_page) == CeilDiv(Max(1, count), per_page)

\* Paginator.get_page(number): a number out of range becomes the last page
GetPage(number, num_pages) ==
    IF number < 1 THEN num_pages
    ELSE IF number > num_pages THEN num_pages
    ELSE number

\* Page.object_list of page `number`
PageObjects(list, number, per_page) ==
    LET bottom == (number - 1) * per_page
        top == Min(bottom + per_page, Len(list))
    IN  SubSeq(list, bottom + 1, top)

(***************************************************************************)
(* Responses.                                                              *)
(***************************************************************************)
JsonResponse(body, status) == [status |-> status, body |-> body]

\* an exception no view catches: the framework answers 500
ServerError(exception) == [status |-> 500, body |-> [exception |-> exception]]

BothRequired ==
    "Both 'customer_org_id' and 'account_id' query parameters are required."

(***************************************************************************)
(* activity_events                                                         *)
(***************************************************************************)
\* (mutant of PersonRefId: 'person_id' is not consulted)
PersonRefIdOnly(person_ref) == Get(person_ref, "id", None)

\* person_ref.get('id') or person_ref.get('person_id')
PersonRefId(person_ref) ==
    Or(Get(person_ref, "id", None), Get(person_ref, "person_id", None))

\* one pass of the enrichment loop body: the entry appended for person_ref
EnrichRef(person_ref) ==
    LET person_id == PersonRefId(person_ref)
    IN  IF Truthy(person_id) /\ PersonGet(person_id) # {}
        THEN LET person == CHOOSE p \in PersonGet(person_id) : TRUE
             IN  [id |-> person.id,
                  first_name |-> person.first_name,
                  last_name |-> person.last_name,
                  email_address |-> person.email_address,
                  role_in_touchpoint |-> Get(person_ref, "role_in_touchpoint", None)]
        ELSE person_ref

\* the dictionary built for one event of the page
EventDict(event) ==
    [id |-> event.id,
     timestamp |-> IsoFormat(event.timestamp),
     people |-> [i \in DOMAIN event.people |-> EnrichRef(event.people[i])],
     direction |-> event.direction,
     customer_org_id |-> event.customer_org_id,
     account_id |-> event.account_id]

\* the date filters of lines 52-65 applied to a queryset
DateFiltered(qs, start_date, end_date) ==
    LET from == IF Truthy(start_date)
                THEN FilterGte(qs, FromIsoFormat(ReplaceZ(start_date)))
                ELSE qs
    IN  IF Truthy(end_date)
        THEN FilterLte(from, FromIsoFormat(ReplaceZ(end_date)))
        ELSE from

\* the response for one evaluation order `list` of the filtered queryset
EventsPage(list, page, page_size) ==
    LET num_pages == NumPages(Len(list), page_size)
        number == GetPage(page, num_pages)
        page_obj == PageObjects(list, number, page_size)
    IN  JsonResponse(
            [events |-> [i \in DOMAIN page_obj |-> EventDict(page_obj[i])],
             pagination |-> [current_page |-> page,
                             total_pages |-> num_pages,
                             total_count |-> Len(list),
                             has_next |-> number < num_pages,
                             has_previous |-> number > 1]],
            200)

\* every response the view can return for the query dict GET
ActivityEventsResponses(GET) ==
    LET customer_org_id == Get(GET, "customer_org_id", None)
        account_id == Get(GET, "account_id", None)
        start_date == Get(GET, "start_date", None)
        end_date == Get(GET, "end_date", None)
    IN  IF "page" \in DOMAIN GET /\ ~IsInt(GET["page"])
        THEN {ServerError("ValueError")}
        ELSE IF "page_size" \in DOMAIN GET /\ ~IsInt(GET["page_size"])
        THEN {ServerError("ValueError")}
        ELSE IF ~Truthy(customer_org_id) \/ ~Truthy(account_id)
        THEN {JsonResponse([error |-> BothRequired], 400)}
        ELSE IF Truthy(start_date) /\ ~IsIso(ReplaceZ(start_date))
        THEN {JsonResponse([error |-> "Invalid start_date format"], 400)}
        ELSE IF Truthy(end_date) /\ ~IsIso(ReplaceZ(end_date))
        THEN {JsonResponse([error |-> "Invalid end_date format"], 400)}
        ELSE
        LET page == IF "page" \in DOMAIN GET THEN ParseInt(GET["page"]) ELSE 1
            page_size ==
                IF "page_size" \in DOMAIN GET
                THEN ParseInt(GET["page_size"])
                ELSE DefaultPageSize
            events_qs ==
                DateFiltered(FilterScope(Objects, customer_org_id, account_id),
                             start_date, end_date)
        IN  IF page_size < 1
            THEN {ServerError(IF page_size = 0 THEN "ZeroDivisionError" ELSE "EmptyPage")}
            ELSE {EventsPage(list, page, page_size) : list \in OrderByTimestamp(events_qs)}

\* a view returns `out` for the request (view, GET); the tables are only read.
\* Each view serves only while the behaviour has requests left (remaining).
Serve(view, GET, out) ==
    /\ remaining' = remaining - 1
    /\ request' = [view |-> view, GET |-> GET]
    /\ response' = out
    /\ UNCHANGED <<events, persons, history>>

activity_events(GET) ==
    /\ remaining > 0
    /\ \E out \in ActivityEventsResponses(GET) : Serve("activity_events", GET, out)

(***************************************************************************)
(* activity_counts                                                         *)
(***************************************************************************)
\* TruncDate('timestamp')
TruncDate(t) == t \div DayLen

\* (mutant of FilterDirection: the direction is not filtered on)
FilterAnyDirection(qs, customer_org_id, account_id, direction) ==
    FilterScope(qs, customer_org_id, account_id)

\* .filter(customer_org_id=..., account_id=..., direction=...)
FilterDirection(qs, customer_org_id, account_id, direction) ==
    {e \in FilterScope(qs, customer_org_id, account_id) : e.direction = direction}

\* the integers of S in ascending order
Ascending(S) == CHOOSE s \in Perms(S) : \A i, j \in DOMAIN s : i < j => s[i] < s[j]

\* .annotate(date=TruncDate).values('date').annotate(count=Count('id'))
\* .order_by('date'), converted to the list of {date, count}
DailyCounts(qs) ==
    LET dates == Ascending({TruncDate(e.timestamp) : e \in qs})
    IN  [i \in DOMAIN dates |->
            [date |-> DateIso(dates[i]),
             count |-> Cardinality({e \in qs : TruncDate(e.timestamp) = dates[i]})]]

ActivityCountsResponses(GET) ==
    LET customer_org_id == Get(GET, "customer_org_id", None)
        account_id == Get(GET, "account_id", None)
        direction == Get(GET, "direction", "IN")
    IN  IF ~Truthy(customer_org_id) \/ ~Truthy(account_id)
        THEN {JsonResponse([error |-> BothRequired], 400)}
        ELSE {JsonResponse(
                [daily_counts |->
                    DailyCounts(FilterDirection(Objects, customer_org_id,
                                                account_id, direction)),
                 direction |-> direction],
                200)}

activity_counts(GET) ==
    /\ remaining > 0
    /\ \E out \in ActivityCountsResponses(GET) : Serve("activity_counts", GET, out)

(***************************************************************************)
(* first_touchpoints                                                       *)
(***************************************************************************)
\* (mutant of NewTouchpoints: the dict lives on between requests, holding
\* what the previous first_touchpoints response was built from)
LeakedTouchpoints ==
    IF request.view = "first_touchpoints" /\ response.status = 200
    THEN response.body.first_touchpoints
    ELSE <<>>

\* first_touchpoints = {}: the dict in insertion order, as the sequence of
\* its values (each value carries its key, person_id)
NewTouchpoints == <<>>

\* person_id in first_touchpoints
InDict(dict, person_id) == \E i \in DOMAIN dict : dict[i].person_id = person_id

\* lines 200-206: the name and email of the entry
PersonName(person_ref, person_id) ==
    IF PersonGet(person_id) # {}
    THEN LET person == CHOOSE p \in PersonGet(person_id) : TRUE
         IN  Strip(Spaced(person.first_name, person.last_name))
    ELSE LET inline == Strip(Spaced(Get(person_ref, "first_name", <<>>),
                                    Get(person_ref, "last_name", <<>>)))
         IN  IF inline = <<>> THEN Unknown ELSE inline

PersonEmail(person_ref, person_id) ==
    IF PersonGet(person_id) # {}
    THEN (CHOOSE p \in PersonGet(person_id) : TRUE).email_address
    ELSE Get(person_ref, "email_address", "")

\* the loop body for one person_ref of one event
ScanRef(dict, event, person_ref) ==
    LET person_id == PersonRefId(person_ref)
    IN  IF Truthy(person_id) /\ ~InDict(dict, person_id)
        THEN Append(dict, [person_id |-> person_id,
                           person_name |-> PersonName(person_ref, person_id),
                           email |-> PersonEmail(person_ref, person_id),
                           timestamp |-> IsoFormat(event.timestamp)])
        ELSE dict

\* for person_ref in event.people, from position i on
RECURSIVE ScanPeople(_, _, _)
ScanPeople(dict, event, i) ==
    IF i > Len(event.people) THEN dict
    ELSE ScanPeople(ScanRef(dict, event, event.people[i]), event, i + 1)

\* for event in events, from position i on
RECURSIVE ScanEvents(_, _, _)
ScanEvents(dict, list, i) ==
    IF i > Len(list) THEN dict
    ELSE ScanEvents(ScanPeople(dict, list[i], 1), list, i + 1)

\* sorted(values, key=timestamp): a stable insertion sort.  The keys are
\* isoformat strings of one format, whose order is that of the instants
RECURSIVE Insert(_, _)
Insert(sorted, x) ==
    IF sorted = <<>> THEN <<x>>
    ELSE IF FromIsoFormat(x.timestamp) < FromIsoFormat(Head(sorted).timestamp)
         THEN <<x>> \o sorted
         ELSE <<Head(sorted)>> \o Insert(Tail(sorted), x)
RECURSIVE SortedByTimestamp(_)
SortedByTimestamp(values) ==
    IF values = <<>> THEN <<>>
    ELSE Insert(SortedByTimestamp(SubSeq(values, 1, Len(values) - 1)),
                values[Len(values)])

FirstTouchpointsResponses(GET) ==
    LET customer_org_id == Get(GET, "customer_org_id", None)
        account_id == Get(GET, "account_id", None)
    IN  IF ~Truthy(customer_org_id) \/ ~Truthy(account_id)
        THEN {JsonResponse([error |-> BothRequired], 400)}
        ELSE {JsonResponse(
                [first_touchpoints |->
                    SortedByTimestamp(ScanEvents(NewTouchpoints, list, 1))],
                200) :
              list \in OrderByTimestamp(FilterScope(Objects, customer_org_id, account_id))}

first_touchpoints(GET) ==
    /\ remaining > 0
    /\ \E out \in FirstTouchpointsResponses(GET) : Serve("first_touchpoints", GET, out)

(***************************************************************************)
(* random_activity_events, random_persons, customers, index                *)
(***************************************************************************)
\* .order_by("?")[:limit]: any `limit` rows in any order
RandomSlice(qs, limit) == {SubSeq(s, 1, Min(Len(s), limit)) : s \in Perms(qs)}

RandomActivityEventsResponses(GET) ==
    LET customer_org_id == Get(GET, "customer_org_id", None)
        account_id == Get(GET, "account_id", None)
    IN  IF ~Truthy(customer_org_id) \/ ~Truthy(account_id)
        THEN {JsonResponse([error |-> BothRequired], 400)}
        ELSE {JsonResponse(list, 200) :
              list \in RandomSlice(FilterScope(Objects, customer_org_id, account_id),
                                   RandomEventLimit)}

random_activity_events(GET) ==
    /\ remaining > 0
    /\ \E out \in RandomActivityEventsResponses(GET) :
            Serve("random_activity_events", GET, out)

RandomPersonsResponses(GET) ==
    LET customer_org_id == Get(GET, "customer_org_id", None)
    IN  IF ~Truthy(customer_org_id)
        THEN {JsonResponse(
                [error |-> "'customer_org_id' query parameter is required."], 400)}
        ELSE {JsonResponse(list, 200) :
              list \in RandomSlice({p \in persons : p.customer_org_id = customer_org_id},
                                   RandomPersonLimit)}

random_persons(GET) ==
    /\ remaining > 0
    /\ \E out \in RandomPersonsResponses(GET) : Serve("random_persons", GET, out)

\* the collation of the identifiers: position in this list
Collation == <<"a1", "a2", "c1", "c2">>
Rank(id) == CHOOSE i \in DOMAIN Collation : Collation[i] = id

\* the identifiers of S in ascending order
Sorted(S) == CHOOSE s \in Perms(S) : \A i, j \in DOMAIN s : i < j => Rank(s[i]) < Rank(s[j])

\* .values('customer_org_id', 'account_id').distinct().order_by(...), grouped
CustomersResponse ==
    LET orgs == Sorted({e.customer_org_id : e \in Objects})
        accounts(org) == Sorted({e.account_id : e \in {x \in Objects : x.customer_org_id = org}})
    IN  JsonResponse(
            [customers |->
                [i \in DOMAIN orgs |->
                    [customer_org_id |-> orgs[i],
                     accounts |->
                        [j \in DOMAIN accounts(orgs[i]) |->
                            [account_id |-> accounts(orgs[i])[j],
                             display_name |-> accounts(orgs[i])[j]]]]]],
            200)

customers(GET) ==
    /\ remaining > 0
    /\ \E out \in {CustomersResponse} : Serve("customers", GET, out)

\* HttpResponse(text)
IndexResponse ==
    [status |-> 200, body |-> [content |-> "Hello, world! This is the API root."]]

index(GET) ==
    /\ remaining > 0
    /\ \E out \in {IndexResponse} : Serve("index", GET, out)

(***************************************************************************)
(* Tables and requests the specifications draw from.                       *)
(***************************************************************************)
\* the dicts with at most the key k, its value in V
Opt(k, V) == {<<>>} \cup {k :> v : v \in V}

\* the dicts made of one choice from each set of the list `options`
RECURSIVE Dicts(_)
Dicts(options) ==
    IF options = <<>> THEN {<<>>}
    ELSE {a @@ b : a \in Head(options), b \in Dicts(Tail(options))}

\* the sequences over S of length at most n
SeqsUpTo(S, n) == UNION {[1..k -> S] : k \in 0..n}

\* ActivityEvent tables of at most n rows; the key of a row is its position
EventTables(n, Times, Scopes, Directions, PeopleLists) ==
    LET Fields == [timestamp : Times, scope : Scopes,
                   direction : Directions, people : PeopleLists]
    IN  {[i \in DOMAIN f |->
            [id |-> i,
             timestamp |-> f[i].timestamp,
             customer_org_id |-> f[i].scope[1],
             account_id |-> f[i].scope[2],
             direction |-> f[i].direction,
             people |-> f[i].people]] : f \in SeqsUpTo(Fields, n)}

\* Person tables: for each id of Ids at most one row
PersonTables(Ids, FirstNames, LastNames, Orgs) ==
    LET Fields == [first_name : FirstNames, last_name : LastNames,
                   customer_org_id : Orgs]
    IN  UNION {{{[id |-> i,
                  first_name |-> f[i].first_name,
                  last_name |-> f[i].last_name,
                  email_address |-> i \o "@crm",
                  customer_org_id |-> f[i].customer_org_id] : i \in D} :
                f \in [D -> Fields]} : D \in SUBSET Ids}

\* the query dict naming the scope (customer_org_id, account_id)
ScopeQuery(org, account) == ("customer_org_id" :> org) @@ ("account_id" :> account)

\* requests of the views that are not under study in a specification
OtherViews(GET) ==
    \/ activity_counts(GET)
    \/ first_touchpoints(GET)
    \/ random_activity_events(GET)
    \/ random_persons(GET)
    \/ customers(GET)
    \/ index(GET)

\* the state before the first of n requests, on one of the given tables
InitOn(EventTablesOf, PersonTablesOf, n) ==
    /\ events \in EventTablesOf
    /\ persons \in PersonTablesOf
    /\ request = NoRequest
    /\ response = NoResponse
    /\ history = NoHistory
    /\ remaining = n

(***************************************************************************)
(* SpecListing: filtering, ordering and pagination of activity_events.     *)
(* Tables of events at several instants inside and outside the scope       *)
(* (c1, a1); every page, page size and date window.  A behaviour is one    *)
(* exchange: the first request served on the tables.                       *)
(***************************************************************************)
ListingScopes == {<<"c1", "a1">>, <<"c1", "a2">>, <<"c2", "a1">>}

ListingTables == EventTables(MaxEvents, 1..MaxTime, ListingScopes, {"IN"}, {<<>>})

PageValues == {ToString(n) : n \in (0 - 1)..(MaxPage + 1)}
PageSizeValues == {ToString(n) : n \in 0..MaxPage}
DateValues == {IsoFormat(t) : t \in 1..MaxTime} \cup {IsoFormat(1) \o "Z"}

ListingQueries ==
    {ScopeQuery("c1", "a1") @@ q :
        q \in Dicts(<<Opt("page", PageValues), Opt("page_size", PageSizeValues),
                     Opt("start_date", DateValues), Opt("end_date", DateValues)>>)}

InitListing == InitOn(ListingTables, {{}}, 1)

NextListing ==
    \/ \E GET \in ListingQueries : activity_events(GET)
    \/ OtherViews(ScopeQuery("c1", "a1"))

SpecListing == InitListing /\ [][NextListing]_vars

(***************************************************************************)
(* SpecValidation: parameter extraction and validation of every view.      *)
(* Each parameter is absent, empty, malformed or well-formed, in every     *)
(* combination; the tables hold at most one row each.                      *)
(***************************************************************************)
ValidationTables == EventTables(1, {1}, {<<"c1", "a1">>}, {"IN"}, {<<>>})
ValidationPersons == PersonTables({"p1"}, {<<"B">>}, {<<"C">>}, {"c1"})

OrgOptions == Opt("customer_org_id", {"", "c1"})
AccountOptions == Opt("account_id", {"", "a1"})

EventsQueries ==
    Dicts(<<OrgOptions, AccountOptions,
            Opt("page", {"x", "1"}), Opt("page_size", {"x", "1"}),
            Opt("start_date", {"bad", IsoFormat(1)}), Opt("end_date", {"bad"})>>)
CountsQueries == Dicts(<<OrgOptions, AccountOptions, Opt("direction", {"OUT"})>>)
ScopeQueries == Dicts(<<OrgOptions, AccountOptions>>)
OrgQueries == Dicts(<<OrgOptions>>)

InitValidation == InitOn(ValidationTables, ValidationPersons, 1)

NextValidation ==
    \/ \E GET \in EventsQueries : activity_events(GET)
    \/ \E GET \in CountsQueries : activity_counts(GET)
    \/ \E GET \in ScopeQueries : first_touchpoints(GET)
    \/ \E GET \in ScopeQueries : random_activity_events(GET)
    \/ \E GET \in OrgQueries : random_persons(GET)
    \/ \E GET \in {<<>>} : customers(GET)
    \/ \E GET \in {<<>>} : index(GET)

SpecValidation == InitValidation /\ [][NextValidation]_vars

(***************************************************************************)
(* SpecPeople: resolution of embedded person references.  One event of     *)
(* the scope (c1, a1) with every list of references (identifier under      *)
(* 'id' and/or 'person_id' or none, inline names or none), and a Person    *)
(* table whose row p1 is absent or present, with names empty or not, in    *)
(* the organization of the request or another.  p2 is never a Person.      *)
(***************************************************************************)
PersonRefs ==
    Dicts(<<Opt("id", {"p1", "p2"}), Opt("person_id", {"p1"}),
            Opt("first_name", {<<"A">>}), Opt("last_name", {<<"Z">>}),
            {"role_in_touchpoint" :> "host"}>>)

PeopleTables ==
    EventTables(1, {1}, {<<"c1", "a1">>}, {"IN"}, SeqsUpTo(PersonRefs, MaxPeople))
PeoplePersons == PersonTables({"p1"}, {<<>>, <<"B">>}, {<<>>, <<"C">>}, {"c1", "c2"})

InitPeople == InitOn(PeopleTables, PeoplePersons, 1)

NextPeople ==
    \/ \E GET \in {ScopeQuery("c1", "a1")} : activity_events(GET)
    \/ OtherViews(ScopeQuery("c1", "a1"))

SpecPeople == InitPeople /\ [][NextPeople]_vars

(***************************************************************************)
(* SpecTouch: the scan of first_touchpoints.  Events at several instants   *)
(* in two scopes, each with a list of references to p1 (under 'id') and    *)
(* p2 (under 'person_id').                                                 *)
(***************************************************************************)
TouchRefs == Dicts(<<Opt("id", {"p1"}), Opt("person_id", {"p2"})>>)

TouchTables ==
    EventTables(MaxEvents, 1..MaxTime, {<<"c1", "a1">>, <<"c2", "a1">>}, {"IN"},
                SeqsUpTo(TouchRefs, MaxPeople))

InitTouch == InitOn(TouchTables, {{}}, 1)

NextTouch ==
    \/ \E GET \in {ScopeQuery("c1", "a1"), ScopeQuery("c2", "a1")} : first_touchpoints(GET)
    \/ \E GET \in {ScopeQuery("c1", "a1")} : activity_events(GET)
    \/ \E GET \in {ScopeQuery("c1", "a1")} : activity_counts(GET)
    \/ \E GET \in {ScopeQuery("c1", "a1")} : random_activity_events(GET)
    \/ \E GET \in {ScopeQuery("c1", "a1")} : random_persons(GET)
    \/ \E GET \in {<<>>} : customers(GET)
    \/ \E GET \in {<<>>} : index(GET)

SpecTouch == InitTouch /\ [][NextTouch]_vars

(***************************************************************************)
(* SpecCounts: the daily counts.  Events of both directions at several     *)
(* instants (DayLen instants to a date) in two scopes; the direction       *)
(* parameter absent, "IN" or "OUT".                                        *)
(***************************************************************************)
CountsTables ==
    EventTables(MaxEvents + 1, 1..MaxTime, {<<"c1", "a1">>, <<"c2", "a1">>},
                {"IN", "OUT"}, {<<>>})

DirectionQueries ==
    {ScopeQuery("c1", "a1") @@ q : q \in Opt("direction", {"IN", "OUT"})}

InitCounts == InitOn(CountsTables, {{}}, 1)

NextCounts ==
    \/ \E GET \in DirectionQueries : activity_counts(GET)
    \/ \E GET \in {ScopeQuery("c1", "a1")} : activity_events(GET)
    \/ \E GET \in {ScopeQuery("c1", "a1")} : first_touchpoints(GET)
    \/ \E GET \in {ScopeQuery("c1", "a1")} : random_activity_events(GET)
    \/ \E GET \in {ScopeQuery("c1", "a1")} : random_persons(GET)
    \/ \E GET \in {<<>>} : customers(GET)
    \/ \E GET \in {<<>>} : index(GET)

SpecCounts == InitCounts /\ [][NextCounts]_vars

(***************************************************************************)
(* SpecFrame: requests served one after another on the same tables, by     *)
(* every view.  An observer keeps one exchange (request and response) of   *)
(* the behaviour in `history`, to compare later exchanges with.            *)
(***************************************************************************)
FrameTables ==
    EventTables(MaxEvents, {1, 2}, {<<"c1", "a1">>, <<"c2", "a1">>}, {"IN"},
                {<<>>, <<"id" :> "p1">>})
FramePersons == {{[id |-> "p1", first_name |-> <<"B">>, last_name |-> <<"C">>,
                   email_address |-> "p1@crm", customer_org_id |-> "c1"]}}

FrameScopes == {ScopeQuery("c1", "a1"), ScopeQuery("c2", "a1")}
FramePages == {s @@ q : s \in FrameScopes, q \in Opt("page_size", {"1"})}

\* the observer notes the exchange just made, once in a behaviour
Remember ==
    /\ history.request.view = "none"
    /\ request.view # "none"
    /\ history' = [request |-> request, response |-> response, left |-> remaining]
    /\ UNCHANGED <<events, persons, request, response, remaining>>

InitFrame == InitOn(FrameTables, FramePersons, MaxRequests)

NextFrame ==
    \/ \E GET \in FramePages : activity_events(GET)
    \/ \E GET \in FrameScopes : activity_counts(GET)
    \/ \E GET \in FrameScopes : first_touchpoints(GET)
    \/ \E GET \in FrameScopes : random_activity_events(GET)
    \/ \E GET \in FrameScopes : random_persons(GET)
    \/ \E GET \in {<<>>} : customers(GET)
    \/ \E GET \in {<<>>} : index(GET)
    \/ Remember

SpecFrame == InitFrame /\ [][NextFrame]_vars

(***************************************************************************)
(* What the claims speak of.                                               *)
(***************************************************************************)
\* the view `view` answered the last request with status 200
Answered(view) == request.view = view /\ response.status = 200

\* a parameter of the last request
Param(k) == Get(request.GET, k, None)

\* the stored timestamp of a returned event dictionary
StoredTime(event_dict) == events[event_dict.id].timestamp

\* the instant a date parameter denotes
Instant(date) == FromIsoFormat(ReplaceZ(date))

\* the keys of the returned events
ReturnedIds(out) == {out.body.events[i].id : i \in DOMAIN out.body.events}

\* the last request without its date parameters, asking for page p
Undated(GET) == [k \in DOMAIN GET \ {"start_date", "end_date"} |-> GET[k]]
UndatedPage(GET, p) ==
    [k \in (DOMAIN GET \ {"start_date", "end_date"}) \cup {"page"} |->
        IF k = "page" THEN ToString(p) ELSE GET[k]]

\* the rows of the request's scope
InScope ==
    {e \in Range(events) :
        /\ e.customer_org_id = Param("customer_org_id")
        /\ e.account_id = Param("account_id")}

(***************************************************************************)
(* C3: every event activity_events returns belongs to the queried scope,   *)
(* lies in the inclusive window [start_date, end_date] (for each bound     *)
(* that is given), is a stored row rendered with its own timestamp, and    *)
(* the returned list is non-decreasing by timestamp.                       *)
(***************************************************************************)
C3_ScopeWindowOrder ==
    Answered("activity_events") =>
        LET out == response.body.events
        IN  /\ \A i \in DOMAIN out :
                /\ out[i].id \in DOMAIN events
                /\ out[i].customer_org_id = Param("customer_org_id")
                /\ out[i].account_id = Param("account_id")
                /\ events[out[i].id].customer_org_id = Param("customer_org_id")
                /\ events[out[i].id].account_id = Param("account_id")
                /\ out[i].timestamp = IsoFormat(StoredTime(out[i]))
                /\ Truthy(Param("start_date")) =>
                        StoredTime(out[i]) >= Instant(Param("start_date"))
                /\ Truthy(Param("end_date")) =>
                        StoredTime(out[i]) <= Instant(Param("end_date"))
            /\ \A i, j \in DOMAIN out : i < j => StoredTime(out[i]) <= StoredTime(out[j])

\* two events of different instants are returned, in order, for a window
\* given by both bounds
C3_Witness ==
    /\ Answered("activity_events")
    /\ Truthy(Param("start_date")) /\ Truthy(Param("end_date"))
    /\ Len(response.body.events) = 2
    /\ StoredTime(response.body.events[1]) < StoredTime(response.body.events[2])

(***************************************************************************)
(* C4 as claimed: with page and page_size fixed, the events returned with  *)
(* date parameters are among the events the same request returns without   *)
(* them.                                                                   *)
(***************************************************************************)
C4_SamePageSubset ==
    (Answered("activity_events")
        /\ (Truthy(Param("start_date")) \/ Truthy(Param("end_date")))) =>
        \E undated \in ActivityEventsResponses(Undated(request.GET)) :
            ReturnedIds(response) \subseteq ReturnedIds(undated)

(***************************************************************************)
(* C4 amended: the events returned with date parameters are among the      *)
(* events the request without them returns over all its pages, and among   *)
(* those of the same page when that request has a single page.             *)
(***************************************************************************)
C4_AllPagesSubset ==
    (Answered("activity_events")
        /\ (Truthy(Param("start_date")) \/ Truthy(Param("end_date")))) =>
        /\ \A first \in ActivityEventsResponses(UndatedPage(request.GET, 1)) :
            LET pages == 1..first.body.pagination.total_pages
            IN  ReturnedIds(response) \subseteq
                    UNION {ReturnedIds(u) :
                        u \in UNION {ActivityEventsResponses(UndatedPage(request.GET, p)) :
                                        p \in pages}}
        /\ \A undated \in ActivityEventsResponses(Undated(request.GET)) :
            undated.body.pagination.total_pages = 1 =>
                ReturnedIds(response) \subseteq ReturnedIds(undated)

\* a date window that keeps one row of the scope and drops another
C4_Witness ==
    /\ Answered("activity_events")
    /\ Truthy(Param("start_date"))
    /\ ReturnedIds(response) # {}
    /\ \E e \in InScope : e.timestamp < Instant(Param("start_date"))

(***************************************************************************)
(* C7 as claimed: the current page of the pagination metadata is the       *)
(* number of the page whose events the response carries, between 1 and     *)
(* the total number of pages.                                              *)
(***************************************************************************)
C7_CurrentPageIsReturnedPage ==
    Answered("activity_events") =>
        LET meta == response.body.pagination
        IN  /\ meta.current_page >= 1
            /\ meta.current_page <= meta.total_pages
            /\ meta.has_next = (meta.current_page < meta.total_pages)
            /\ meta.has_previous = (meta.current_page > 1)

(***************************************************************************)
(* C1 as claimed: a request to a view that lacks a required parameter (or  *)
(* gives it empty) is answered 400 with an "error" key, whatever its       *)
(* other parameters are.                                                   *)
(***************************************************************************)
NeedsScope ==
    {"activity_events", "activity_counts", "first_touchpoints", "random_activity_events"}

MissingRequired ==
    \/ request.view \in NeedsScope
        /\ (~Truthy(Param("customer_org_id")) \/ ~Truthy(Param("account_id")))
    \/ request.view = "random_persons" /\ ~Truthy(Param("customer_org_id"))

C1_MissingParamIs400 ==
    MissingRequired => response.status = 400 /\ "error" \in DOMAIN response.body

(***************************************************************************)
(* References and Persons, as the claims speak of them.                    *)
(***************************************************************************)
\* the person identifier a reference carries: the one under 'id', else the
\* one under 'person_id', else none
Identifier(ref) ==
    IF "id" \in DOMAIN ref THEN ref["id"]
    ELSE IF "person_id" \in DOMAIN ref THEN ref["person_id"]
    ELSE None

\* the rows of the scope whose people list references person_id
Referencing(person_id) ==
    {e \in InScope : \E k \in DOMAIN e.people : Identifier(e.people[k]) = person_id}

\* the least element of a non-empty set of integers
Least(S) == CHOOSE x \in S : \A y \in S : x <= y

Touchpoints == response.body.first_touchpoints

(***************************************************************************)
(* C2: in a first_touchpoints response no person identifier has two        *)
(* entries, and the timestamp of an entry is the least timestamp of the    *)
(* events of the scope that reference its person identifier.               *)
(***************************************************************************)
C2_OnceWithEarliestTimestamp ==
    Answered("first_touchpoints") =>
        /\ \A i, j \in DOMAIN Touchpoints :
            i # j => Touchpoints[i].person_id # Touchpoints[j].person_id
        /\ \A i \in DOMAIN Touchpoints :
            /\ Referencing(Touchpoints[i].person_id) # {}
            /\ Touchpoints[i].timestamp =
                IsoFormat(Least({e.timestamp : e \in Referencing(Touchpoints[i].person_id)}))

\* the later event is stored first, both reference the same person, and
\* the entry carries the earlier instant
C2_Witness ==
    /\ Answered("first_touchpoints")
    /\ Len(Touchpoints) >= 1
    /\ Len(events) = 2
    /\ events[1] \in Referencing(Touchpoints[1].person_id)
    /\ events[2] \in Referencing(Touchpoints[1].person_id)
    /\ events[1].timestamp > events[2].timestamp

(***************************************************************************)
(* C5: the people list of every event activity_events returns has the      *)
(* length and order of the embedded list; the entry of a reference whose   *)
(* identifier is that of a Person carries the Person's id, names and       *)
(* email with the reference's role_in_touchpoint, and the entry of any     *)
(* other reference is the reference itself.                                *)
(***************************************************************************)
C5_Enrichment ==
    Answered("activity_events") =>
        \A i \in DOMAIN response.body.events :
            LET out == response.body.events[i].people
                embedded == events[response.body.events[i].id].people
            IN  /\ DOMAIN out = DOMAIN embedded
                /\ \A k \in DOMAIN embedded :
                    LET ref == embedded[k]
                        matches == {p \in persons : p.id = Identifier(ref)}
                    IN  IF matches # {}
                        THEN \E p \in matches :
                                out[k] = [id |-> p.id,
                                          first_name |-> p.first_name,
                                          last_name |-> p.last_name,
                                          email_address |-> p.email_address,
                                          role_in_touchpoint |-> ref["role_in_touchpoint"]]
                        ELSE out[k] = ref

\* a returned event whose first reference is enriched from a Person and
\* whose second, with inline names, matches none
C5_Witness ==
    /\ Answered("activity_events")
    /\ Len(response.body.events) = 1
    /\ Len(events[1].people) = 2
    /\ \E p \in persons : p.id = Identifier(events[1].people[1])
    /\ \A p \in persons : p.id # Identifier(events[1].people[2])
    /\ "first_name" \in DOMAIN events[1].people[2]
    /\ "first_name" \in DOMAIN events[1].people[1]

(***************************************************************************)
(* C8 as claimed: the person_name of a first_touchpoints entry is never    *)
(* empty: it is the Person's "first last" when a Person has the            *)
(* identifier, else the inline "first last" of the reference, and it is    *)
(* "Unknown" when neither the Person nor the reference holds a name.       *)
(***************************************************************************)
\* the reference that made the entry of person_id: the first in scan order
FirstRef(person_id) ==
    LET e == CHOOSE x \in Referencing(person_id) :
                \A y \in Referencing(person_id) : x.timestamp <= y.timestamp
        k == CHOOSE n \in DOMAIN e.people :
                /\ Identifier(e.people[n]) = person_id
                /\ \A m \in DOMAIN e.people : Identifier(e.people[m]) = person_id => n <= m
    IN  e.people[k]

C8_PersonName ==
    Answered("first_touchpoints") =>
        \A i \in DOMAIN Touchpoints :
            LET entry == Touchpoints[i]
                ref == FirstRef(entry.person_id)
                matches == {p \in persons : p.id = entry.person_id}
                inline == <<Get(ref, "first_name", <<>>), Get(ref, "last_name", <<>>)>>
                held == IF matches # {}
                        THEN LET p == CHOOSE p \in matches : TRUE
                             IN  <<p.first_name, p.last_name>>
                        ELSE inline
            IN  /\ entry.person_name # <<>>
                /\ held # <<<<>>, <<>>>> => entry.person_name = Strip(Spaced(held[1], held[2]))
                /\ (held = <<<<>>, <<>>>> /\ inline = <<<<>>, <<>>>>) =>
                        entry.person_name = Unknown

(***************************************************************************)
(* C10 as claimed: in the responses of activity_events and                 *)
(* first_touchpoints for the organization C, no name or email comes from   *)
(* a Person of another organization.  (The email of a Person identifies    *)
(* it: no reference carries an email of its own.)                          *)
(***************************************************************************)
Foreign == {p \in persons : p.customer_org_id # Param("customer_org_id")}

C10_NoForeignPerson ==
    /\ Answered("activity_events") =>
        \A i \in DOMAIN response.body.events :
            \A k \in DOMAIN response.body.events[i].people :
                \A p \in Foreign :
                    Get(response.body.events[i].people[k], "email_address", "")
                        # p.email_address
    /\ Answered("first_touchpoints") =>
        \A i \in DOMAIN Touchpoints :
            \A p \in Foreign : Touchpoints[i].email # p.email_address

(***************************************************************************)
(* C6: the counts activity_counts returns add up to the number of events   *)
(* of the scope with the resolved direction (the parameter, "IN" when      *)
(* absent); no date has two entries, every count is at least 1 and the     *)
(* entries are in ascending order of date.                                 *)
(***************************************************************************)
ResolvedDirection ==
    IF "direction" \in DOMAIN request.GET THEN request.GET["direction"] ELSE "IN"

\* the date an entry names
DateOf(entry) == CHOOSE d \in 0..MaxTime : DateIso(d) = entry.date

RECURSIVE SumCounts(_)
SumCounts(entries) ==
    IF entries = <<>> THEN 0 ELSE Head(entries).count + SumCounts(Tail(entries))

C6_DailyCounts ==
    Answered("activity_counts") =>
        LET entries == response.body.daily_counts
        IN  /\ response.body.direction = ResolvedDirection
            /\ SumCounts(entries) =
                Cardinality({e \in InScope : e.direction = ResolvedDirection})
            /\ \A i \in DOMAIN entries : entries[i].count >= 1
            /\ \A i, j \in DOMAIN entries : i < j => DateOf(entries[i]) < DateOf(entries[j])

\* two dates, one of them with two events, and an event of the scope with
\* the other direction that is not counted
C6_Witness ==
    /\ Answered("activity_counts")
    /\ Len(response.body.daily_counts) >= 1
    /\ response.body.daily_counts[1].count = 2
    /\ \E e \in InScope : e.direction # ResolvedDirection

(***************************************************************************)
(* C9 as claimed: no request changes the tables, and a request to a view   *)
(* other than the random ones gets the response the same request got       *)
(* earlier in the behaviour.                                               *)
(***************************************************************************)
RandomViews == {"random_activity_events", "random_persons"}

TablesUnchanged == events' = events /\ persons' = persons

Repeated ==
    /\ history.request.view # "none"
    /\ request.view \notin RandomViews
    /\ history.request = request

NoTies == \A e, f \in InScope : e.timestamp = f.timestamp => e = f

====
